---- MODULE Spec2Model ----
(***************************************************************************)
(* Model of consolegpt's conversation-tree state engine:                   *)
(*   - the keyed persistent store (utils.ts, storage),                     *)
(*   - the task registry and the streaming exchange                        *)
(*     (completionTaskStore.ts),                                           *)
(*   - the Message component (message.tsx): its React state (parentMsg),   *)
(*     its render snapshot (childMsgs, selectedMsg, weight), its layout    *)
(*     effect (weight write-back) and its handlers (newBranch, editSelect, *)
(*     handleItemDelete, handleItemClick, deselect, "Stop response").      *)
(* Mounted Message components form a chain from the root down the selected *)
(* path; the chain is the sequence `view`.                                 *)
(***************************************************************************)
EXTENDS Integers, Sequences, FiniteSets, TLC

\* ---------------------------------------------------------------- bounds
\* Number of node ids nanoid may hand out in one run.
MaxNodes == 3
\* Number of non-empty deltas one streaming exchange may deliver.
MaxChunks == 1
\* Number of non-empty deltas of one exchange in a run of SpecStream.
MaxChunksStream == 2
\* Number of node ids in a run of SpecDeep, which needs a branch below a branch.
MaxNodesDeep == 5
\* Number of node ids in a run of SpecWide, which needs a node with three children.
MaxNodesWide == 4

\* ------------------------------------------------------------ value model
\* An optional field: absent is <<>>, present with value x is <<x>>.
None == <<>>
Some(x) == <<x>>
IsSome(o) == Len(o) > 0
Get(o) == o[1]

\* Absent (undefined) string-valued field, JSON null, and the empty string.
Undef == "undef"
Null == "null"
EmptyStr == ""

\* x is falsy as a string-or-undefined/null value.
Falsy(s) == s \in {Undef, Null, EmptyStr}

Root == "#0000"
IdNames == <<"n1", "n2", "n3", "n4", "n5", "n6", "n7", "n8">>
NodeIds == {IdNames[k] : k \in 1..MaxNodesDeep}
AllIds == {Root} \cup NodeIds

\* Texts are sequences of characters.
Blank == <<" ">>
\* What the text box submits: a trimmed, non-empty text.
Contents == {<<"h">>}
\* Non-empty deltas of the stream.
Deltas == {<<"a">>}

\* Non-empty deltas of the stream in a run of SpecStream.
DeltasStream == {<<"a">>, <<"b">>}

DefaultModel == "gpt-4o"
\* The developer message Main passes to the root Message.
DevMsg == [role |-> "developer", content |-> <<"F">>]
RootInitialContent == <<DevMsg>>

NoMeta == [model |-> None, error |-> None]

\* The empty-record default a get returns for a missing key ("{}").
EmptyRec ==
  [id |-> Undef, role |-> Undef, content |-> None, messages |-> <<>>,
   select |-> Undef, weight |-> None, meta |-> NoMeta, task |-> FALSE]

\* ---------------------------------------------------------------- state
VARIABLES
  store,     \* localStorage: key -> record (EmptyRec when the key is missing)
  tasks,     \* the registry atom's value: sequence of tasks
  view,      \* mounted Message components, root first
  settings,  \* settingsStore's value
  nextId,    \* ids handed out so far
  ev,        \* the last operation and what it did (history)
  atomSt     \* an atom of createAtom on its own: value, subscribers, last call

vars == <<store, tasks, view, settings, nextId, ev, atomSt>>

\* ------------------------------------------------------------- sequences
RECURSIVE SeqSum(_)
SeqSum(s) == IF s = <<>> THEN 0 ELSE Head(s) + SeqSum(Tail(s))

\* JS Array.prototype.filter with the predicate x !== v.
RECURSIVE Without(_, _)
Without(s, v) ==
  IF s = <<>> THEN <<>>
  ELSE IF Head(s) = v THEN Without(Tail(s), v)
       ELSE <<Head(s)>> \o Without(Tail(s), v)

\* JS indexOf, 1-based; 0 when absent.
IndexOf(s, v) ==
  IF \E i \in 1..Len(s) : s[i] = v
  THEN CHOOSE i \in 1..Len(s) : s[i] = v /\ \A j \in 1..(i - 1) : s[j] # v
  ELSE 0

Range(s) == {s[i] : i \in 1..Len(s)}

\* ----------------------------------------------------------------- store
\* storage(key).get()
StoreGet(st, key) == IF key \in DOMAIN st THEN st[key] ELSE EmptyRec

\* storage(key).set(data); a key that is not a string id writes under "undefined",
\* which no node reads.
StoreSet(st, key, rec) == IF key \in DOMAIN st THEN [st EXCEPT ![key] = rec] ELSE st

\* The record left in place.
StoreDelKept(st, key) == st

\* storage(key).del() / localStorage.removeItem(key)
StoreDel(st, key) == IF key \in DOMAIN st THEN [st EXCEPT ![key] = EmptyRec] ELSE st

Present(st, key) == StoreGet(st, key) # EmptyRec

\* -------------------------------------------------------------- registry
\* completionTaskStore.get().find((task) => task.id === id): index, 0 if none.
FindTask(ts, id) ==
  IF \E i \in 1..Len(ts) : ts[i].id = id
  THEN CHOOSE i \in 1..Len(ts) : ts[i].id = id /\ \A j \in 1..(i - 1) : ts[j].id # id
  ELSE 0

HasTask(ts, id) == FindTask(ts, id) # 0

\* atom.set((prev) => [...prev, task])
storeTask(ts, task) == Append(ts, task)

RECURSIVE FilterOutId(_, _)
FilterOutId(ts, id) ==
  IF ts = <<>> THEN <<>>
  ELSE IF Head(ts).id = id THEN FilterOutId(Tail(ts), id)
       ELSE <<Head(ts)>> \o FilterOutId(Tail(ts), id)

\* The registry emptied instead of filtered.
removeTaskAll(ts, id) == <<>>

\* atom.set((prev) => [...prev].filter((task) => task.id !== id))
removeTask(ts, id) == FilterOutId(ts, id)

AbortTaskLost(ts, id) == ts

\* The task taken out of the registry by the abort itself.
AbortTaskRemoves(ts, id) == FilterOutId(ts, id)

\* abortController.abort() of the task found for id (no task: nothing).
AbortTask(ts, id) ==
  IF HasTask(ts, id) THEN [ts EXCEPT ![FindTask(ts, id)].aborted = TRUE] ELSE ts

\* ------------------------------------------------------------ the render
\* weight = childMsgs.reduce((p, c) => p + 1 + (c.weight || 0), 0)
WeightOr0(w) == IF IsSome(w) THEN Get(w) ELSE 0

ChildWeightStale(st, k) == 1

ChildWeight(st, k) == 1 + WeightOr0(StoreGet(st, k).weight)

CalcWeight(st, msgs) == SeqSum([i \in 1..Len(msgs) |-> ChildWeight(st, msgs[i])])

\* childMsgs.find((msg) => msg.id === parentMsg?.select): index into messages, 0 if none.
FindSelected(st, pm) ==
  LET hit(i) == StoreGet(st, pm.messages[i]).id = pm.select
  IN IF \E i \in 1..Len(pm.messages) : hit(i)
     THEN CHOOSE i \in 1..Len(pm.messages) : hit(i) /\ \A j \in 1..(i - 1) : ~hit(j)
     ELSE 0

\* parentMsg?.role === "user" ? "assistant" : "user"
DefaultChildRole(pm) == IF pm.role = "user" THEN "assistant" ELSE "user"

\* A freshly mounted Message: useState initialisers.
NewComp(st, id, initialContent) ==
  LET pm == StoreGet(st, id)
  IN [id |-> id, pm |-> pm, init |-> initialContent,
      editing |-> (DefaultChildRole(pm) = "user"),
      weight |-> 0, kids |-> <<>>, hasSel |-> FALSE, selKey |-> Undef,
      sel |-> EmptyRec, subs |-> {}]

\* One element of childMsgs: {...storage(_id).get(), task: registry.find(...)}.
ChildMsg(st, ts, key) == [StoreGet(st, key) EXCEPT !.task = HasTask(ts, key)]

\* The body of Message for state pm, whose selected child is its i-th (0: none):
\* childMsgs, weight, selectedMsg, and the result atoms its effect subscribes
\* refresh to.
RenderSelected(st, ts, comp, pm, i) ==
  [comp EXCEPT
     !.pm = pm,
     !.weight = CalcWeight(st, pm.messages),
     !.kids = [j \in 1..Len(pm.messages) |-> StoreGet(st, pm.messages[j]).id],
     !.hasSel = (i # 0),
     !.selKey = IF i = 0 THEN Undef ELSE pm.messages[i],
     !.sel = IF i = 0 THEN EmptyRec ELSE ChildMsg(st, ts, pm.messages[i]),
     !.subs = {ts[j].id : j \in 1..Len(ts)} \cap Range(pm.messages)]

RenderComp(st, ts, comp, pm) == RenderSelected(st, ts, comp, pm, FindSelected(st, pm))

\* selectedMemoProps is defined: if (!selectedMsg?.id) return;
HasMemo(comp) == comp.hasSel /\ ~Falsy(comp.sel.id)

\* The child Message mounted even while the selected child has a task.
HasChildStreaming(comp) == HasMemo(comp)

\* {selectedMemoProps && !selectedMsg?.task && <MemoMessage .../>}
HasChild(comp) == HasMemo(comp) /\ ~comp.sel.task

\* The useMemo dependencies that decide the child's key.
MemoDeps(comp) == <<comp.sel.id, comp.sel.content, comp.sel.role>>

\* The selected message left out of the child's initialContent.
ChildInitialContentBare(comp) == comp.init

\* selectedMemoProps.initialContent
ChildInitialContent(comp) ==
  comp.init \o
    (IF comp.sel.role # Undef /\ IsSome(comp.sel.content) /\ Get(comp.sel.content) # <<>>
     THEN <<[role |-> comp.sel.role, content |-> Get(comp.sel.content)]>>
     ELSE <<>>)

Clean(n) == [i \in 1..n |-> None]

\* The child instance of component i is kept when the key is unchanged.
KeepChild(vw, i, new) ==
  /\ i < Len(vw)
  /\ HasChild(vw[i]) /\ HasChild(new)
  /\ MemoDeps(vw[i]) = MemoDeps(new)

\* The chain down to component i, which has rendered as new.
Upto(vw, i, new) == SubSeq(vw, 1, i - 1) \o <<new>>

\* Render phase of one React pass, top-down from component i: a component with a
\* pending state re-renders (Reconcile); its child instance is kept when the key
\* is unchanged, else everything below is unmounted and the selected child, if
\* any, is mounted (MountChild). Returns the new chain and which components
\* rendered.
RECURSIVE RenderFrom(_, _, _, _, _, _)
RECURSIVE Reconcile(_, _, _, _, _, _, _)
RECURSIVE MountChild(_, _, _, _, _, _, _, _)
MountChild(st, ts, vw, pend, done, i, new, child) ==
  RenderFrom(st, ts, Upto(vw, i, new) \o <<child>>,
             SubSeq(pend, 1, i) \o <<Some(child.pm)>>, done \o <<TRUE>>, i + 1)

Reconcile(st, ts, vw, pend, done, i, new) ==
  IF KeepChild(vw, i, new)
  THEN RenderFrom(st, ts, Upto(vw, i, new) \o SubSeq(vw, i + 1, Len(vw)), pend,
                  done \o <<TRUE>>, i + 1)
  ELSE IF HasChild(new)
  THEN MountChild(st, ts, vw, pend, done, i, new,
                  NewComp(st, new.sel.id, ChildInitialContent(new)))
  ELSE [view |-> Upto(vw, i, new), rendered |-> done \o <<TRUE>>]

RenderFrom(st, ts, vw, pend, done, i) ==
  IF i > Len(vw) THEN [view |-> vw, rendered |-> done]
  ELSE IF ~IsSome(pend[i])
  THEN RenderFrom(st, ts, vw, pend, done \o <<FALSE>>, i + 1)
  ELSE Reconcile(st, ts, vw, pend, done, i, RenderComp(st, ts, vw[i], Get(pend[i])))

\* useLayoutEffect of component i once it has written st1:
\* onWeightChange?.() is the parent's refresh; refresh().
LayoutEffect(w, vw, i, st1) ==
  [store |-> st1,
   pend |-> IF i > 1
            THEN [w.pend EXCEPT ![i - 1] = Some(StoreGet(st1, vw[i - 1].id)),
                                ![i] = Some(StoreGet(st1, vw[i].id))]
            ELSE [w.pend EXCEPT ![i] = Some(StoreGet(st1, vw[i].id))]]

\* useLayoutEffect of the components that rendered in a pass:
\* if (weight !== parentMsg.weight) { set({...parentMsg, weight}); ... }
\* Effects run children first; w = [store, pend].
RECURSIVE EffectsFrom(_, _, _, _)
EffectsFrom(w, vw, rendered, i) ==
  IF i = 0 THEN w
  ELSE IF ~rendered[i] \/ vw[i].pm.weight = Some(vw[i].weight)
  THEN EffectsFrom(w, vw, rendered, i - 1)
  ELSE EffectsFrom(
         LayoutEffect(w, vw, i,
                      StoreSet(w.store, vw[i].id,
                               [vw[i].pm EXCEPT !.weight = Some(vw[i].weight)])),
         vw, rendered, i - 1)

\* Which components of the chain r.view rendered in the pass r.
RenderedFlags(r) ==
  [i \in 1..Len(r.view) |-> IF i <= Len(r.rendered) THEN r.rendered[i] ELSE FALSE]

\* React passes until no state update is pending: the render phase r, then the
\* layout effects e, then the next pass. Returns [store, view].
RECURSIVE Commit(_, _, _, _)
RECURSIVE AfterRender(_, _, _)
RECURSIVE AfterEffects(_, _, _)
AfterEffects(ts, vw, e) == Commit(e.store, ts, vw, e.pend)

AfterRender(st, ts, r) ==
  AfterEffects(ts, r.view,
               EffectsFrom([store |-> st, pend |-> Clean(Len(r.view))], r.view,
                           RenderedFlags(r), Len(r.view)))

Commit(st, ts, vw, pend) ==
  IF \A i \in 1..Len(pend) : ~IsSome(pend[i]) THEN [store |-> st, view |-> vw]
  ELSE AfterRender(st, ts, RenderFrom(st, ts, vw, pend, <<>>, 1))

\* The store and the chain after the commit r.
Committed(r) == store' = r.store /\ view' = r.view

\* refresh() of component i: setParentMsg(storage(id).get()).
Refreshed(st, vw, who) ==
  [i \in 1..Len(vw) |-> IF i \in who THEN Some(StoreGet(st, vw[i].id)) ELSE None]

\* The components who call refresh() after the handler has written st, and React
\* renders.
Refresh(st, ts, who) == Commit(st, ts, view, Refreshed(st, view, who))

\* ----------------------------------------------------------------- init
\* op: "ui" for the operations that start no exchange and write no node content
\* (initial mount, toggle, select, deselect, stop); else the operation's name.
NoEvent ==
  [op |-> "ui", id |-> Undef, a |-> Undef, b |-> Undef, aborts |-> <<>>,
   text |-> <<>>, atom |-> <<>>, acc |-> <<>>, k |-> 0, mode |-> "",
   aborted |-> FALSE]

EmptyStore == [k \in AllIds |-> EmptyRec]

\* First mount of <MemoMessage id="#0000" .../> over an empty localStorage.
FirstMount ==
  LET root == NewComp(EmptyStore, Root, RootInitialContent)
  IN Commit(EmptyStore, <<>>, <<root>>, <<Some(root.pm)>>)

\* createSettingsStore: { model: 'gpt-4o', ...store.get() }; the stored settings
\* hold an apiKey or none.
\* ---------------------------------------------------------- createAtom
\* Largest value of the atom modelled on its own (values are 0..MaxAtomValue).
MaxAtomValue == 2
\* Callbacks that may be subscribed to it.
Callbacks == {"f", "g", "h"}
NoTarget == "none"
\* The updaters passed to set: (v) => v + 1 (wrapping), (v) => v, () => 0.
Updaters == {"inc", "same", "zero"}

\* updater(value)
Update(u, v) ==
  CASE u = "inc" -> (v + 1) % (MaxAtomValue + 1)
    [] u = "same" -> v
    [] u = "zero" -> 0

\* createAtom(initialValue): the value, the Set of subscribers in insertion
\* order, and a record of the last call: for a set, the value before it, the
\* subscribers when it was called, what each callback did when invoked (beh: the
\* callback it unsubscribed, if any) and the invocations made, in order.
\* dropped holds the callbacks unsubscribed and not subscribed again.
AtomInit ==
  [value |-> 0, subscribers |-> <<>>, op |-> "create", prev |-> 0,
   updater |-> "same", atSet |-> <<>>, beh |-> [c \in Callbacks |-> NoTarget],
   calls |-> <<>>, dropped |-> {}]

\* subscribers.forEach((callback) => callback(value)) from the entries todo not
\* yet visited: Set.prototype.forEach walks the live Set in insertion order, so
\* an entry deleted before its visit is not visited.
RECURSIVE NotifyCopy(_, _, _, _, _)
NotifyCopy(subs, todo, calls, beh, v) ==
  IF todo = <<>> THEN [subscribers |-> subs, calls |-> calls]
  ELSE NotifyCopy(IF beh[Head(todo)] = NoTarget THEN subs
                  ELSE Without(subs, beh[Head(todo)]),
                  Tail(todo), Append(calls, <<Head(todo), v>>), beh, v)

RECURSIVE Notify(_, _, _, _, _)
Notify(subs, todo, calls, beh, v) ==
  IF todo = <<>> THEN [subscribers |-> subs, calls |-> calls]
  ELSE IF beh[Head(todo)] = NoTarget
       THEN Notify(subs, Tail(todo), Append(calls, <<Head(todo), v>>), beh, v)
       ELSE Notify(Without(subs, beh[Head(todo)]),
                   Without(Tail(todo), beh[Head(todo)]),
                   Append(calls, <<Head(todo), v>>), beh, v)

\* subscribers.add(callback) at the front instead of the end.
SetAddFirst(subs, c) ==
  IF \E k \in 1..Len(subs) : subs[k] = c THEN subs ELSE <<c>> \o subs

\* subscribers.add(callback): a Set keeps a callback already in it in its place.
SetAdd(subs, c) ==
  IF \E k \in 1..Len(subs) : subs[k] = c THEN subs ELSE Append(subs, c)

\* subscribe(callback), outside a notification.
AtomSubscribe ==
  \E c \in Callbacks :
    /\ atomSt' = [AtomInit EXCEPT !.value = atomSt.value,
                                  !.subscribers = SetAdd(atomSt.subscribers, c),
                                  !.op = "subscribe",
                                  !.dropped = atomSt.dropped \ {c}]
    /\ UNCHANGED <<store, tasks, view, settings, nextId, ev>>

\* The function subscribe returned, called outside a notification:
\* subscribers.delete(callback).
AtomUnsubscribe ==
  \E k \in 1..Len(atomSt.subscribers) :
    /\ atomSt' = [AtomInit EXCEPT !.value = atomSt.value,
                                  !.subscribers = Without(atomSt.subscribers,
                                                          atomSt.subscribers[k]),
                                  !.op = "unsubscribe",
                                  !.dropped = atomSt.dropped
                                                \cup {atomSt.subscribers[k]}]
    /\ UNCHANGED <<store, tasks, view, settings, nextId, ev>>

\* What the callbacks do when invoked: nothing, or call the unsubscribe function
\* of a subscribed callback (their own included).
Behaviours(subs) ==
  {b \in [Callbacks -> {NoTarget} \cup {subs[k] : k \in 1..Len(subs)}] :
     \A c \in Callbacks : (\A k \in 1..Len(subs) : subs[k] # c) => b[c] = NoTarget}

\* set(updater): value = updater(value); subscribers.forEach(...)
AtomSetDone(u, beh, n) ==
  atomSt' = [atomSt EXCEPT !.value = Update(u, atomSt.value),
                           !.subscribers = n.subscribers,
                           !.op = "set", !.prev = atomSt.value, !.updater = u,
                           !.atSet = atomSt.subscribers, !.beh = beh,
                           !.calls = n.calls,
                           !.dropped = atomSt.dropped
                                         \cup (Range(atomSt.subscribers)
                                                 \ Range(n.subscribers))]

AtomSet ==
  \E u \in Updaters, beh \in Behaviours(atomSt.subscribers) :
    /\ AtomSetDone(u, beh,
                   Notify(atomSt.subscribers, atomSt.subscribers, <<>>, beh,
                          Update(u, atomSt.value)))
    /\ UNCHANGED <<store, tasks, view, settings, nextId, ev>>

NextAtom ==
  \/ AtomSubscribe
  \/ AtomUnsubscribe
  \/ AtomSet

SettingsInit(key) == [apiKey |-> key, model |-> DefaultModel]

Mounted(r) == store = r.store /\ view = r.view

Init ==
  /\ Mounted(FirstMount)
  /\ tasks = <<>>
  /\ \E key \in {EmptyStr, "k"} : settings = SettingsInit(key)
  /\ nextId = 0
  /\ ev = NoEvent
  /\ atomSt = AtomInit

\* No rejected-precondition exchange is waiting for its (microtask) settlement.
Quiet == \A j \in 1..Len(tasks) : ~tasks[j].nokey

\* --------------------------------------------------- newMessageCompletion
\* The record newMessageCompletion writes back and closes over:
\* { ...msgStore.get(), meta: { model } }
CompletionMsg(st, msgId) ==
  [StoreGet(st, msgId) EXCEPT !.meta = [model |-> Some(settings.model), error |-> None]]

newTaskUnstored(ts, id, msg, messages) == ts

\* completionTaskStore.newTask: the result atom, the exchange, then storeTask.
\* The exchange of a call without apiKey is already rejected.
newTask(ts, id, msg, messages) ==
  storeTask(ts, [id |-> id, result |-> <<>>, acc |-> <<>>, msg |-> msg,
                 messages |-> messages, nokey |-> Falsy(settings.apiKey),
                 aborted |-> FALSE, n |-> 0, settled |-> FALSE])

\* newMessageCompletion({msgId, messages}): [store, tasks] afterwards.
newMessageCompletion(st, ts, msgId, messages) ==
  LET msg == CompletionMsg(st, msgId)
  IN [store |-> StoreSet(st, msgId, msg), tasks |-> newTask(ts, msgId, msg, messages)]

\* ------------------------------------------------------------- newBranch
\* Every new node a user node, whatever its parent and siblings are.
BranchRoleUser(comp) == "user"

\* role: selectedMsg?.role || defaultChildRole
BranchRole(comp) ==
  IF comp.hasSel /\ ~Falsy(comp.sel.role) THEN comp.sel.role ELSE DefaultChildRole(comp.pm)

Truthy(content) == IsSome(content) /\ Get(content) # <<>>

\* `#${nanoid(4)}`: the k-th id handed out; ids do not repeat.
NewIdReused(k) == IdNames[IF k > 2 THEN 2 ELSE k]

NewId(k) == IdNames[k]

\* newBranch({content, fillContent, addAnswer}) of component i, then the render.
\* if (addAnswer && content && msg.role === "user"): the child record, then
\* newMessageCompletion for it. Returns [store, tasks].
AnswerCompletion(comp, role, content, childMsgId, answer) ==
  IF answer
  THEN newMessageCompletion(
         StoreSet(store, childMsgId,
                  [EmptyRec EXCEPT !.id = childMsgId, !.role = "assistant"]),
         tasks, childMsgId,
         comp.init \o <<[role |-> role, content |-> Get(content)]>>)
  ELSE [store |-> store, tasks |-> tasks]

\* The new record: msg.messages = [childMsgId]; msg.select = childMsgId when an
\* answer is added.
BranchMsg(msgId, role, content, childMsgId, answer) ==
  IF answer
  THEN [EmptyRec EXCEPT !.id = msgId, !.role = role, !.content = content,
                        !.messages = <<childMsgId>>, !.select = childMsgId]
  ELSE [EmptyRec EXCEPT !.id = msgId, !.role = role, !.content = content]

\* The completion started for the parent instead of the new node.
FillCompletionParent(c, comp, msgId, msg, fill) ==
  IF fill
  THEN newMessageCompletion(StoreSet(c.store, msgId, msg), c.tasks, comp.id, comp.init)
  ELSE [store |-> StoreSet(c.store, msgId, msg), tasks |-> c.tasks]

\* storage(msgId).set(msg), then
\* if (fillContent && !addAnswer && msg.role === "assistant") newMessageCompletion
FillCompletion(c, comp, msgId, msg, fill) ==
  IF fill
  THEN newMessageCompletion(StoreSet(c.store, msgId, msg), c.tasks, msgId, comp.init)
  ELSE [store |-> StoreSet(c.store, msgId, msg), tasks |-> c.tasks]

\* The new id put after the children instead of before them.
LinkParentAppended(c, comp, msgId) ==
  [store |-> StoreSet(c.store, comp.id,
                      [comp.pm EXCEPT !.messages = comp.pm.messages \o <<msgId>>,
                                      !.select = msgId]),
   tasks |-> c.tasks]

\* set({...parentMsg, messages: [msgId, ...messages], select: msgId})
LinkParent(c, comp, msgId) ==
  [store |-> StoreSet(c.store, comp.id,
                      [comp.pm EXCEPT !.messages = <<msgId>> \o comp.pm.messages,
                                      !.select = msgId]),
   tasks |-> c.tasks]

\* refresh() of component i after newBranch has written c.
Branched(i, c) == Committed(Refresh(c.store, c.tasks, {i})) /\ tasks' = c.tasks

\* newBranch while fewer than limit ids are handed out.
BranchWithin(limit, i, content, fill, answer, mode, msgId, childMsgId, role) ==
  /\ nextId + (IF answer THEN 2 ELSE 1) <= limit
  /\ Branched(i, LinkParent(
                   FillCompletion(
                     AnswerCompletion(view[i], role, content, childMsgId, answer),
                     view[i], msgId,
                     BranchMsg(msgId, role, content, childMsgId, answer), fill),
                   view[i], msgId))
  /\ nextId' = nextId + (IF answer THEN 2 ELSE 1)
  /\ ev' = [NoEvent EXCEPT !.op = "newBranch", !.id = view[i].id, !.a = msgId,
                           !.b = IF answer THEN childMsgId ELSE Undef,
                           !.text = IF IsSome(content) THEN Get(content) ELSE <<>>,
                           !.mode = mode]
  /\ UNCHANGED <<settings, atomSt>>

Branch(i, content, fill, answer, mode, msgId, childMsgId, role) ==
  BranchWithin(MaxNodes, i, content, fill, answer, mode, msgId, childMsgId, role)

newBranch(i, content, fillContent, addAnswer, mode) ==
  Branch(i, content,
         fillContent /\ ~addAnswer /\ BranchRole(view[i]) = "assistant",
         addAnswer /\ Truthy(content) /\ BranchRole(view[i]) = "user",
         mode, NewId(nextId + 1), NewId(nextId + 2), BranchRole(view[i]))

\* Textarea "send": newBranch({ content, addAnswer: true }); shown while isEditing.
Send ==
  \E i \in 1..Len(view), content \in Contents :
    /\ Quiet
    /\ view[i].editing
    /\ newBranch(i, Some(content), FALSE, TRUE, "send")

\* "Roll another response": newBranch({ fillContent: true }); shown when the
\* selected child is an assistant message.
Roll ==
  \E i \in 1..Len(view) :
    /\ Quiet
    /\ view[i].hasSel /\ view[i].sel.role = "assistant"
    /\ newBranch(i, None, TRUE, FALSE, "fill")

\* "Toggle editing": setIsEditing(!isEditing); shown when the selected child is an
\* assistant message.
ToggleEditing ==
  \E i \in 1..Len(view) :
    /\ Quiet
    /\ view[i].hasSel /\ view[i].sel.role = "assistant"
    /\ view' = [view EXCEPT ![i].editing = ~view[i].editing]
    /\ ev' = NoEvent
    /\ UNCHANGED <<store, tasks, settings, nextId, atomSt>>

\* ------------------------------------------------------------ editSelect
\* Textarea "save": editSelect(content).
editSelect ==
  \E i \in 1..Len(view), content \in Contents :
    /\ Quiet
    /\ view[i].editing
    /\ IF ~view[i].hasSel
       THEN UNCHANGED <<store, view>>
       ELSE Committed(Refresh(StoreSet(store, view[i].sel.id,
                                       [view[i].sel EXCEPT !.content = Some(content)]),
                              tasks, {i}))
    /\ ev' = [NoEvent EXCEPT !.op = "editSelect", !.id = view[i].id,
                             !.a = IF view[i].hasSel THEN view[i].sel.id ELSE Undef]
    /\ UNCHANGED <<tasks, settings, nextId, atomSt>>

\* ------------------------------------------------------ handleItemDelete
At(s, j) == IF j \in 1..Len(s) THEN s[j] ELSE Undef

\* newMsgs[deletedChatIndex] || newMsgs[0] || null
Fallback(newMsgs, idx) ==
  IF ~Falsy(At(newMsgs, idx)) THEN At(newMsgs, idx)
  ELSE IF ~Falsy(At(newMsgs, 1)) THEN At(newMsgs, 1)
  ELSE Null

\* recDel(_id): w = [store, tasks, aborts, visited]; reads messages, removes the
\* record, aborts the task found for _id, then recurses over messages in order.
RECURSIVE recDel(_, _)
RECURSIVE recDelList(_, _)
recDelList(w, msgs) ==
  IF msgs = <<>> THEN w ELSE recDelList(recDel(w, Head(msgs)), Tail(msgs))

recDelShallow(w, id) ==
  [store |-> StoreDel(w.store, id),
   tasks |-> AbortTask(w.tasks, id),
   aborts |-> IF HasTask(w.tasks, id) THEN Append(w.aborts, id) ELSE w.aborts,
   visited |-> Append(w.visited, id)]

\* The records removed, the tasks left running.
recDelUnaborted(w, id) ==
  recDelList([store |-> StoreDel(w.store, id), tasks |-> w.tasks,
              aborts |-> w.aborts, visited |-> Append(w.visited, id)],
             StoreGet(w.store, id).messages)

recDel(w, id) ==
  LET messages == StoreGet(w.store, id).messages
      w1 == [store |-> StoreDel(w.store, id),
             tasks |-> AbortTask(w.tasks, id),
             aborts |-> IF HasTask(w.tasks, id) THEN Append(w.aborts, id) ELSE w.aborts,
             visited |-> Append(w.visited, id)]
  IN recDelList(w1, messages)

NewSelectedKept(pm, msgId) == pm.select

\* parentMsg.select === msgId ? newMsgs[deletedChatIndex] || newMsgs[0] || null
\*                             : parentMsg.select
NewSelected(pm, msgId) ==
  IF pm.select = msgId
  THEN Fallback(Without(pm.messages, msgId), IndexOf(pm.messages, msgId))
  ELSE pm.select

\* The end of handleItemDelete: d is what recDel left, pend the refresh().
Deleted(i, msgId, pend, d) ==
  /\ Committed(Commit(d.store, d.tasks, view, pend))
  /\ tasks' = d.tasks
  /\ ev' = [NoEvent EXCEPT !.op = "delete", !.id = view[i].id, !.a = msgId,
                           !.aborts = d.aborts]
  /\ UNCHANGED <<settings, nextId, atomSt>>

\* handleItemDelete once the parent's record is written (st1): refresh(), recDel.
DeleteFrom(i, msgId, st1) ==
  Deleted(i, msgId, Refreshed(st1, view, {i}),
          recDel([store |-> st1, tasks |-> tasks, aborts |-> <<>>, visited |-> <<>>],
                 msgId))

handleItemDelete ==
  \E i \in 1..Len(view) : \E msgId \in Range(view[i].kids) :
    /\ Quiet
    /\ DeleteFrom(i, msgId,
                  StoreSet(store, view[i].id,
                           [view[i].pm EXCEPT
                              !.select = NewSelected(view[i].pm, msgId),
                              !.messages = Without(view[i].pm.messages, msgId)]))

\* ------------------------------------------------------- handleItemClick
Click(i, msgId) ==
  /\ Quiet
  /\ Committed(Refresh(StoreSet(store, view[i].id, [view[i].pm EXCEPT !.select = msgId]),
                       tasks, {i}))
  /\ ev' = NoEvent
  /\ UNCHANGED <<tasks, settings, nextId, atomSt>>

handleItemClick ==
  \E i \in 1..Len(view) : \E msgId \in Range(view[i].kids) : Click(i, msgId)

\* Header "New Chat": deselectMsgRef.current = () => handleItemClick(""), root only.
Deselect == Click(1, EmptyStr)

\* ------------------------------------------------------- "Stop response"
\* selectedMsg.task?.abort(), shown when the rendered selected child has a task.
StopResponse ==
  \E i \in 1..Len(view) :
    /\ Quiet
    /\ view[i].hasSel /\ view[i].sel.task
    /\ HasTask(tasks, view[i].selKey)
    /\ tasks' = AbortTask(tasks, view[i].selKey)
    /\ ev' = NoEvent
    /\ UNCHANGED <<store, view, settings, nextId, atomSt>>

\* ------------------------------------------------- the streaming exchange
\* Components whose effect subscribed refresh to the result atom of task id.
Subscribers(id) == {i \in 1..Len(view) : id \in view[i].subs}

\* msg.content || ""
ContentOrEmpty(rec) == IF Truthy(rec.content) THEN Get(rec.content) ELSE <<>>

\* onText of newMessageCompletion:
\* msgStore.set({ ...msg, content: (msg.content || "") + text + " " })
OnTextContent(msg, text) ==
  (IF Truthy(msg.content) THEN Get(msg.content) ELSE <<>>) \o text \o Blank

\* The record read again at each chunk instead of taken from the snapshot.
OnTextRecordFresh(st, t, text) ==
  [StoreGet(st, t.id) EXCEPT
     !.content = Some(OnTextContent(StoreGet(st, t.id), text))]

\* What onText stores: { ...msg, content: ... } with msg the snapshot of task t.
OnTextRecord(st, t, text) ==
  [t.msg EXCEPT !.content = Some(OnTextContent(t.msg, text))]

\* result += content
AccumulateLast(acc, delta) == delta

Accumulate(acc, delta) == acc \o delta

\* One non-empty delta: result += content; onText(result), which sets the result
\* atom (notifying refresh) and then writes the record. An exchange delivers at
\* most limit deltas, drawn from deltas.
ChunkWithin(limit, deltas) ==
  \E j \in 1..Len(tasks), delta \in deltas :
    /\ Quiet
    /\ ~tasks[j].settled
    /\ ~tasks[j].aborted /\ tasks[j].n < limit
    /\ tasks' = [tasks EXCEPT ![j].acc = Accumulate(tasks[j].acc, delta),
                              ![j].result = Accumulate(tasks[j].acc, delta),
                              ![j].n = tasks[j].n + 1]
    /\ Committed(Commit(StoreSet(store, tasks[j].id,
                                 OnTextRecord(store, tasks[j], tasks'[j].acc)),
                        tasks', view, Refreshed(store, view, Subscribers(tasks[j].id))))
    /\ ev' = [NoEvent EXCEPT !.op = "chunk", !.id = tasks[j].id,
                             !.text = ContentOrEmpty(StoreGet(store, tasks[j].id)),
                             !.k = tasks[j].n + 1]
    /\ UNCHANGED <<settings, nextId, atomSt>>

Chunk == ChunkWithin(MaxChunks, Deltas)

\* JSON.stringify(error): a plain Error has no enumerable property.
Stringify(error) == IF error = "Error" THEN "{}" ELSE "{\"status\":500}"

\* The then branch of newTask after resolve(text).
Resolved(j, text, op) ==
  /\ ~tasks[j].settled
  /\ tasks' = removeTask(tasks, tasks[j].id)
  /\ Committed(Commit(store, tasks', view,
                      Refreshed(store, view, Subscribers(tasks[j].id))))
  /\ ev' = [NoEvent EXCEPT !.op = op, !.id = tasks[j].id, !.text = text, !.atom = text,
                           !.acc = tasks[j].acc, !.k = tasks[j].n,
                           !.aborted = tasks[j].aborted]
  /\ UNCHANGED <<settings, nextId, atomSt>>

RejectedIntoSnapshot(j, error) ==
  /\ ~tasks[j].settled
  /\ tasks' = removeTask(tasks, tasks[j].id)
  /\ Committed(Commit(StoreSet(store, tasks[j].id,
                               [tasks[j].msg EXCEPT
                                  !.meta.error = Some(Stringify(error))]),
                      tasks', view, Refreshed(store, view, Subscribers(tasks[j].id))))
  /\ ev' = [NoEvent EXCEPT !.op = "error", !.id = tasks[j].id, !.atom = tasks[j].result,
                           !.acc = tasks[j].acc, !.k = tasks[j].n,
                           !.aborted = tasks[j].aborted]
  /\ UNCHANGED <<settings, nextId, atomSt>>

\* The catch branch of newTask after reject(error): the atom keeps its value,
\* onError stores the error in the fresh record.
Rejected(j, error) ==
  /\ ~tasks[j].settled
  /\ tasks' = removeTask(tasks, tasks[j].id)
  /\ Committed(Commit(StoreSet(store, tasks[j].id,
                               [StoreGet(store, tasks[j].id) EXCEPT
                                  !.meta.error = Some(Stringify(error))]),
                      tasks', view, Refreshed(store, view, Subscribers(tasks[j].id))))
  /\ ev' = [NoEvent EXCEPT !.op = "error", !.id = tasks[j].id, !.atom = tasks[j].result,
                           !.acc = tasks[j].acc, !.k = tasks[j].n,
                           !.aborted = tasks[j].aborted]
  /\ UNCHANGED <<settings, nextId, atomSt>>

\* if (!apiKey) return reject(new Error("API key is required"))
RejectNoKey == \E j \in 1..Len(tasks) : tasks[j].nokey /\ Rejected(j, "Error")

\* The stream ends: resolve(result). The stream of an aborted exchange may end
\* this way too, when the transport swallows the abort.
StreamEnd ==
  \E j \in 1..Len(tasks) : Quiet /\ Resolved(j, tasks[j].acc, "done")

CatchAllReject(j, error) == Rejected(j, error)

\* chatCompletion's catch: AbortError resolves "", any other error rejects.
Catch(j, error) ==
  IF error = "AbortError" THEN Resolved(j, <<>>, "cancel") ELSE Rejected(j, error)

\* The exchange fails with an error of the service or the network. An aborted
\* exchange ends by StreamEnd or StreamAbortError only: the abort signal is what
\* ends it.
StreamError ==
  \E j \in 1..Len(tasks) : Quiet /\ ~tasks[j].aborted /\ Catch(j, "APIError")

\* The aborted exchange raises AbortError, before or between deltas.
StreamAbortError ==
  \E j \in 1..Len(tasks) : Quiet /\ tasks[j].aborted /\ Catch(j, "AbortError")

Next ==
  \/ Send
  \/ Roll
  \/ ToggleEditing
  \/ editSelect
  \/ handleItemDelete
  \/ handleItemClick
  \/ Deselect
  \/ StopResponse
  \/ Chunk
  \/ RejectNoKey
  \/ StreamEnd
  \/ StreamError
  \/ StreamAbortError

Spec == Init /\ [][Next]_vars

\* An atom used on its own by subscribers that may unsubscribe one another.
SpecAtom == Init /\ [][NextAtom]_vars

\* The streaming exchange of a registered task settles: the promise of
\* chatCompletion is resolved or rejected and newTask's then or catch branch runs.
Settle == RejectNoKey \/ StreamEnd \/ StreamError \/ StreamAbortError

\* Exchanges eventually settle: a behaviour in which tasks stay registered has
\* ever again a step that settles one (weak fairness of Settle, which is enabled
\* exactly while a task is registered).
SpecFair == Spec /\ ([]<>(tasks = <<>>) \/ []<><<Settle>>_vars)

\* ------------------------------------------------ the registry on its own
\* Direct use of the exported completionTaskStore by newMessageCompletion-like
\* callers that choose the id themselves.
MaxTasks == 2
\* The callers start no exchange for a record whose content has this length.
MaxContentLen == 2

\* newMessageCompletion({ msgId: id, messages: [] }) for any id.
DirectNewTask ==
  \E id \in NodeIds :
    LET c == newMessageCompletion(store, tasks, id, <<>>)
    IN /\ Quiet
       /\ Len(tasks) < MaxTasks
       /\ Len(ContentOrEmpty(StoreGet(store, id))) < MaxContentLen
       /\ store' = c.store
       /\ tasks' = c.tasks
       /\ ev' = [NoEvent EXCEPT !.op = "newTask", !.id = id]
       /\ UNCHANGED <<view, settings, nextId, atomSt>>

\* task.abort() on any registered task.
DirectAbort ==
  \E j \in 1..Len(tasks) :
    /\ Quiet
    /\ ~tasks[j].aborted
    /\ tasks' = [tasks EXCEPT ![j].aborted = TRUE]
    /\ ev' = NoEvent
    /\ UNCHANGED <<store, view, settings, nextId, atomSt>>

NextRegistry ==
  \/ DirectNewTask
  \/ DirectAbort
  \/ Chunk
  \/ RejectNoKey
  \/ StreamEnd
  \/ StreamError
  \/ StreamAbortError

SpecRegistry == Init /\ [][NextRegistry]_vars

\* One conversation with longer exchanges: sends and rolls, and exchanges of up
\* to MaxChunksStream deltas that end, fail or are stopped.
ChunkStream == ChunkWithin(MaxChunksStream, DeltasStream)

NextStream ==
  \/ Send
  \/ Roll
  \/ StopResponse
  \/ ChunkStream
  \/ RejectNoKey
  \/ StreamEnd
  \/ StreamError
  \/ StreamAbortError

SpecStream == Init /\ [][NextStream]_vars

\* One exchange of up to MaxChunksStream deltas whose node is edited meanwhile.
NextEdit ==
  \/ Send
  \/ ToggleEditing
  \/ editSelect
  \/ ChunkStream
  \/ RejectNoKey
  \/ StreamEnd
  \/ StreamError

SpecEdit == Init /\ [][NextEdit]_vars

\* ================================================================ claims
\* Ids reachable from the ids of S through children lists, S included.
RECURSIVE Closure(_, _)
Closure(st, S) ==
  LET T == S \cup {c \in AllIds : \E p \in S : c \in Range(StoreGet(st, p).messages)}
  IN IF T = S THEN S ELSE Closure(st, T)

\* n and its transitive descendants.
Subtree(st, n) == Closure(st, {n})

Stored == {n \in AllIds : Present(store, n)}

Count(s, v) == Cardinality({i \in 1..Len(s) : s[i] = v})

\* C1: every stored node's weight (absent counting as 0) is the sum over its
\* children of 1 + the child's weight, and so the number of its transitive
\* descendants.
C1_WeightInvariant ==
  \A n \in Stored :
    LET msgs == store[n].messages
        w == WeightOr0(store[n].weight)
    IN /\ w = SeqSum([i \in 1..Len(msgs) |-> 1 + WeightOr0(StoreGet(store, msgs[i]).weight)])
       /\ w = Cardinality(Subtree(store, n)) - 1

\* A delete has just run under a node that keeps two descendants at two depths.
C1_Witness ==
  /\ ev.op = "delete"
  /\ store[Root].weight = Some(2)
  /\ \E n \in NodeIds : Present(store, n) /\ store[n].weight = Some(1)

C3_DeleteRemovesSubtree ==
  [][ev'.op = "delete" =>
       \A d \in Subtree(store, ev'.a) : StoreGet(store', d) = EmptyRec]_vars

\* A delete has removed a node together with a descendant (whose task it aborted).
C3_Witness ==
  /\ ev.op = "delete"
  /\ Len(ev.aborts) = 1
  /\ ev.aborts[1] # ev.a
  /\ ~Present(store, ev.a) /\ ~Present(store, ev.aborts[1])

\* C4: a delete of n calls abort exactly once for every registered task whose id
\* is n or a descendant of n, and for no other task; those tasks are aborted
\* afterwards and the record of n is absent.
C4_DeleteAbortsOnce ==
  [][ev'.op = "delete" =>
       LET S == Subtree(store, ev'.a)
       IN /\ \A id \in AllIds :
               Count(ev'.aborts, id) = IF id \in S /\ HasTask(tasks, id) THEN 1 ELSE 0
          /\ \A j \in 1..Len(tasks) :
               tasks[j].id \in S =>
                 \E k \in 1..Len(tasks') : tasks'[k].id = tasks[j].id /\ tasks'[k].aborted
          /\ ~Present(store', ev'.a)]_vars

\* A delete has removed a node whose own task was in flight.
C4_Witness ==
  /\ ev.op = "delete"
  /\ ev.aborts = <<ev.a>>
  /\ ~Present(store, ev.a)
  /\ \E j \in 1..Len(tasks) : tasks[j].id = ev.a /\ tasks[j].aborted

\* C5: the registry holds at most one task per node id.
C5_OneTaskPerId ==
  \A i, j \in 1..Len(tasks) : i # j => tasks[i].id # tasks[j].id

\* Two exchanges are in flight at once, one of them already streaming.
C5_Witness ==
  /\ Len(tasks) >= 2
  /\ \E j \in 1..Len(tasks) : tasks[j].n >= 1

\* C6 (under SpecRegistry): a newTask for an id that has a registered task is
\* rejected, so the registry never holds two entries with one id.
C6_DuplicateRejected ==
  \A id \in AllIds : Cardinality({j \in 1..Len(tasks) : tasks[j].id = id}) <= 1

Settled == ev.op \in {"done", "cancel", "error"}

\* C7: the settlement of an aborted task leaves the node's content as the
\* deltas before the abort wrote it and its meta.error unset; the abort call
\* itself, made by "Stop response", writes no record.
C7_CancelKeepsContent ==
  [][/\ (Settled' /\ ev'.aborted) =>
          /\ StoreGet(store', ev'.id).content = StoreGet(store, ev'.id).content
          /\ StoreGet(store', ev'.id).meta.error = None
     /\ (ev'.op = "ui" /\ tasks' # tasks) => store' = store]_vars

\* A task stopped after one delta has settled by AbortError; its node keeps the
\* content the delta wrote.
C7_Witness ==
  /\ ev.op = "cancel" /\ ev.aborted /\ ev.k = 1
  /\ Present(store, ev.id)
  /\ IsSome(store[ev.id].content)
  /\ Get(store[ev.id].content) = ev.acc \o Blank

\* C8: a cancelled task resolves with the text accumulated from the deltas it
\* received: that text is what the then branch gets and what the result atom
\* finally holds, and onError is not called.
C8_CancelResolvesAccumulated ==
  (Settled /\ ev.aborted) =>
    /\ ev.op # "error"
    /\ ev.text = ev.acc
    /\ ev.atom = ev.acc

\* C9: when a task that was not aborted settles successfully with text T, the
\* node's content is exactly T and its meta.error is unset.
C9_SettledContentIsText ==
  (ev.op = "done" /\ ~ev.aborted) =>
    /\ ContentOrEmpty(StoreGet(store, ev.id)) = ev.text
    /\ StoreGet(store, ev.id).meta.error = None

\* C10: a send (newBranch with content and addAnswer) that makes a user node
\* makes, in the same step, a fresh user node with that content, whose only
\* child and select is a fresh assistant node without content, and registers a
\* task under the assistant node's id and none under the user node's id.
C10_SendAddsAnswer ==
  [][(/\ ev'.op = "newBranch" /\ ev'.mode = "send" /\ ev'.text # <<>>
      /\ StoreGet(store', ev'.a).role = "user") =>
       LET u == StoreGet(store', ev'.a)
           b == u.select
           child == StoreGet(store', b)
       IN /\ ~Present(store, ev'.a)
          /\ u.id = ev'.a /\ u.content = Some(ev'.text)
          /\ b \in NodeIds /\ b # ev'.a /\ ~Present(store, b)
          /\ u.messages = <<b>>
          /\ child.id = b /\ child.role = "assistant"
          /\ child.content = None /\ child.messages = <<>>
          /\ HasTask(tasks', b) /\ ~HasTask(tasks, b)
          /\ ~HasTask(tasks', ev'.a)]_vars

\* A send under the root has made a user node and its assistant child, whose
\* exchange is in flight.
C10_Witness ==
  /\ ev.op = "newBranch" /\ ev.mode = "send" /\ ev.id = Root
  /\ store[ev.a].role = "user"
  /\ ev.b # Undef
  /\ HasTask(tasks, ev.b) /\ ~tasks[FindTask(tasks, ev.b)].nokey

\* ------------------------------------------------ a terminal callback fails
\* The catch branch of newTask when onError throws (storage.set or JSON.stringify
\* raising in newMessageCompletion's onError): result.set((current) => current)
\* has notified the subscribers, nothing is written, and removeTask(id) is not
\* reached; the exchange is settled and its task stays registered.
RejectedOnErrorThrows(j) ==
  /\ ~tasks[j].settled
  /\ tasks' = [tasks EXCEPT ![j].settled = TRUE]
  /\ Committed(Commit(store, tasks', view,
                      Refreshed(store, view, Subscribers(tasks[j].id))))
  /\ ev' = [NoEvent EXCEPT !.op = "throw", !.id = tasks[j].id, !.atom = tasks[j].result,
                           !.acc = tasks[j].acc, !.k = tasks[j].n,
                           !.aborted = tasks[j].aborted]
  /\ UNCHANGED <<settings, nextId, atomSt>>

\* The exchange fails with an error of the service or the network and onError
\* throws.
StreamErrorOnErrorThrows ==
  \E j \in 1..Len(tasks) : Quiet /\ ~tasks[j].aborted /\ RejectedOnErrorThrows(j)

NextFaults == Next \/ StreamErrorOnErrorThrows

SpecFaults == Init /\ [][NextFaults]_vars

\* C12 (under SpecFaults): no settled task stays in the registry, also when a
\* terminal callback fails: the removal runs once for every settled exchange.
C12_SettledTaskRemoved == \A j \in 1..Len(tasks) : ~tasks[j].settled

\* ------------------------------------------------ a node with three children
\* The user sends once and rolls responses until MaxNodesWide ids are handed out,
\* selects, saves and deletes; exchanges end without delta.
RollWide ==
  \E i \in 1..Len(view) :
    /\ Quiet
    /\ view[i].hasSel /\ view[i].sel.role = "assistant"
    /\ BranchWithin(MaxNodesWide, i, None, BranchRole(view[i]) = "assistant", FALSE,
                    "fill", NewId(nextId + 1), NewId(nextId + 2), BranchRole(view[i]))

NextWide ==
  \/ Send
  \/ RollWide
  \/ handleItemClick
  \/ editSelect
  \/ handleItemDelete
  \/ RejectNoKey
  \/ StreamEnd

SpecWide == Init /\ [][NextWide]_vars

\* A conversation of up to MaxNodesDeep nodes: sends and rolls at any mounted
\* component, select, save, and exchanges that deliver a delta and end.
SendDeep ==
  \E i \in 1..Len(view), content \in Contents :
    /\ Quiet
    /\ view[i].editing
    /\ BranchWithin(MaxNodesDeep, i, Some(content), FALSE,
                    BranchRole(view[i]) = "user", "send",
                    NewId(nextId + 1), NewId(nextId + 2), BranchRole(view[i]))

RollDeep ==
  \E i \in 1..Len(view) :
    /\ Quiet
    /\ view[i].hasSel /\ view[i].sel.role = "assistant"
    /\ BranchWithin(MaxNodesDeep, i, None, BranchRole(view[i]) = "assistant", FALSE,
                    "fill", NewId(nextId + 1), NewId(nextId + 2),
                    BranchRole(view[i]))

NextDeep ==
  \/ SendDeep
  \/ RollDeep
  \/ handleItemClick
  \/ editSelect
  \/ Chunk
  \/ RejectNoKey
  \/ StreamEnd

SpecDeep == Init /\ [][NextDeep]_vars

\* C11 (under SpecWide): a delete of n takes n out of its parent's children and
\* keeps the order of the others; if n was the parent's select, select becomes the child now at n's
\* former position, else the new first child, else null; if n was not the
\* select, select is unchanged.
C11_DeleteRepointsSelect ==
  [][ev'.op = "delete" =>
       LET old == StoreGet(store, ev'.id)
           new == StoreGet(store', ev'.id)
           n == ev'.a
           pos == CHOOSE k \in 1..Len(old.messages) : old.messages[k] = n
           rest == [k \in 1..(Len(old.messages) - 1) |->
                      IF k < pos THEN old.messages[k] ELSE old.messages[k + 1]]
       IN /\ n \in Range(old.messages)
          /\ new.messages = rest
          /\ new.select = IF old.select # n THEN old.select
                          ELSE IF pos <= Len(rest) THEN rest[pos]
                          ELSE IF rest # <<>> THEN rest[1]
                          ELSE Null]_vars

\* C13: when the exchange of node n's task fails with an error other than
\* cancellation, n's meta.error holds the failure, n's content, meta.model, role,
\* id, children and select are kept, the task is removed, and no task is started.
C13_ErrorStoredFieldsKept ==
  [][(ev'.op = "error" /\ ~ev'.aborted) =>
       LET old == StoreGet(store, ev'.id)
           new == StoreGet(store', ev'.id)
       IN /\ IsSome(new.meta.error) /\ Get(new.meta.error) # EmptyStr
          /\ new.content = old.content
          /\ new.meta.model = old.meta.model
          /\ new.role = old.role /\ new.id = old.id
          /\ new.messages = old.messages /\ new.select = old.select
          /\ tasks' = SelectSeq(tasks, LAMBDA t : t.id # ev'.id)
          /\ nextId' = nextId]_vars

\* An exchange has failed after one delta: its node keeps the content the delta
\* wrote and the model, and holds the error.
C13_Witness ==
  /\ ev.op = "error" /\ ~ev.aborted /\ ev.k = 1
  /\ Present(store, ev.id)
  /\ store[ev.id].content = Some(ev.acc \o Blank)
  /\ store[ev.id].meta.model = Some(DefaultModel)
  /\ IsSome(store[ev.id].meta.error)
  /\ ~HasTask(tasks, ev.id)

\* C14: while the API key is missing no task is ever present in the registry:
\* the failure is reported before a task is created.
C14_NoTaskWithoutKey == Falsy(settings.apiKey) => tasks = <<>>

\* C15: editSelect leaves the selected child's children, select, weight, role and
\* meta as they were in the store, changes no other node's record and no task;
\* without a selected child it changes nothing.
C15_EditSelectOnlyContent ==
  [][ev'.op = "editSelect" =>
       /\ tasks' = tasks
       /\ \A id \in AllIds : id # ev'.a => store'[id] = store[id]
       /\ ev'.a # Undef =>
            LET old == StoreGet(store, ev'.a)
                new == StoreGet(store', ev'.a)
            IN /\ new.messages = old.messages /\ new.select = old.select
               /\ new.weight = old.weight /\ new.role = old.role
               /\ new.meta = old.meta]_vars

\* Position of a node id in the order in which ids are handed out.
IdOrder(n) == CHOOSE k \in 1..Len(IdNames) : IdNames[k] = n

\* C16: after newBranch in a parent, the new node's id is first among the
\* parent's children, the children present before follow in their previous
\* order, and the parent's select is the new id; every stored children list is
\* ordered newest-first.
C16_BranchPrepends ==
  [][/\ ev'.op = "newBranch" =>
          /\ StoreGet(store', ev'.id).messages
               = <<ev'.a>> \o StoreGet(store, ev'.id).messages
          /\ StoreGet(store', ev'.id).select = ev'.a
     /\ \A p \in AllIds :
          LET ms == StoreGet(store', p).messages
          IN \A k \in 1..(Len(ms) - 1) : IdOrder(ms[k]) > IdOrder(ms[k + 1])]_vars

\* A second branch has been added in front of an earlier child.
C16_Witness ==
  /\ ev.op = "newBranch"
  /\ Len(StoreGet(store, ev.id).messages) >= 2
  /\ StoreGet(store, ev.id).messages[1] = ev.a
  /\ StoreGet(store, ev.id).select = ev.a

\* The ids handed out so far whose record is gone: the deleted nodes.
DeletedIds == {n \in NodeIds : IdOrder(n) <= nextId /\ ~Present(store, n)}

\* C17: the record of a deleted node (the node given to delete or one of its
\* descendants) stays absent: no chunk, completion, error, weight write or other
\* step stores a record under its id, and no task is registered under it again.
C17_DeletedStaysAbsent ==
  [][\A n \in DeletedIds :
       /\ ~Present(store', n)
       /\ HasTask(tasks', n) => HasTask(tasks, n)]_vars

\* The exchange of a deleted node has ended after the deletion.
C17_Witness ==
  /\ ev.op \in {"done", "cancel"}
  /\ ev.id \in DeletedIds
  /\ ev.aborted
  /\ ~HasTask(tasks, ev.id)

\* C18: the stored records form a tree rooted at '#0000': no children entry names
\* an id without a record, and every stored record other than the root is listed
\* once in the children of exactly one stored record and is reachable from the
\* root through children lists.
C18_StoredIsTree ==
  /\ \A p \in Stored : \A c \in Range(store[p].messages) : Present(store, c)
  /\ \A n \in Stored \ {Root} :
       /\ Cardinality({p \in Stored : n \in Range(store[p].messages)}) = 1
       /\ \A p \in Stored : Count(store[p].messages, n) <= 1
       /\ n \in Subtree(store, Root)

\* A branch has been deleted next to a node that keeps a child of its own.
C18_Witness ==
  /\ ev.op = "delete"
  /\ \E p \in Stored \ {Root}, c \in Stored : c \in Range(store[p].messages)
  /\ DeletedIds # {}

\* C19: a task's result atom starts as the empty text; each chunk sets it to the
\* text accumulated so far, a proper extension of its previous value, and onText
\* stores that same cumulative text; on successful completion the atom holds the
\* whole text, onDone is given it, and the task is then out of the registry.
C19_AtomIsCumulative ==
  [][/\ \A j \in (Len(tasks) + 1)..Len(tasks') :
          tasks'[j].result = <<>> /\ tasks'[j].n = 0
     /\ ev'.op = "chunk" =>
          LET j == FindTask(tasks, ev'.id)
              old == tasks[j]
              new == tasks'[j]
          IN /\ new.id = old.id /\ new.n = old.n + 1
             /\ old.result = old.acc
             /\ new.result = new.acc
             /\ Len(new.result) > Len(old.result)
             /\ SubSeq(new.result, 1, Len(old.result)) = old.result
             /\ StoreGet(store', ev'.id).content
                  = Some(ContentOrEmpty(old.msg) \o new.result \o Blank)
     /\ ev'.op = "done" =>
          /\ ev'.atom = ev'.acc
          /\ ev'.text = ev'.acc
          /\ HasTask(tasks, ev'.id) /\ ~HasTask(tasks', ev'.id)]_vars

\* An exchange has completed after two different deltas.
C19_Witness ==
  /\ ev.op = "done" /\ ~ev.aborted
  /\ ev.k = 2
  /\ ev.atom = <<"a", "b">>
  /\ StoreGet(store, ev.id).content = Some(<<"a", "b", " ">>)

\* C20 (under SpecFair): a task leaves the registry only in the step in which its
\* own exchange settles (done, cancelled or failed), so an abort, by Stop
\* response or by delete, leaves it registered; and when every exchange
\* eventually settles, every registered task is eventually removed.
C20_RemovedOnlyWhenSettled ==
  /\ [][\A id \in NodeIds :
          (HasTask(tasks, id) /\ ~HasTask(tasks', id))
            => (ev'.op \in {"done", "cancel", "error"} /\ ev'.id = id)]_vars
  /\ \A id \in NodeIds : HasTask(tasks, id) ~> ~HasTask(tasks, id)

\* Delete has aborted the task of a removed node, and the task is still registered.
C20_Witness ==
  /\ ev.op = "delete"
  /\ \E j \in 1..Len(tasks) :
       tasks[j].aborted /\ tasks[j].id \in DeletedIds

\* C21: set(updater) replaces the value by updater(value) and then invokes the
\* subscribers registered at that moment, each once, in the order in which they
\* were registered, each with the new value; a callback unsubscribed before the
\* set is not invoked. (Subscribers are kept in registration order: subscribe
\* appends, unsubscribe takes one out.)
C21_SetNotifiesInOrder ==
  [][/\ atomSt'.op = "subscribe" =>
          \E c \in Callbacks :
            atomSt'.subscribers
              = IF c \in Range(atomSt.subscribers) THEN atomSt.subscribers
                ELSE Append(atomSt.subscribers, c)
     /\ atomSt'.op = "unsubscribe" =>
          \E c \in Range(atomSt.subscribers) :
            atomSt'.subscribers = Without(atomSt.subscribers, c)
     /\ atomSt'.op = "set" =>
          /\ atomSt'.value = Update(atomSt'.updater, atomSt.value)
          /\ \A k \in 1..Len(atomSt'.calls) :
               /\ atomSt'.calls[k][2] = atomSt'.value
               /\ atomSt'.calls[k][1] \in Range(atomSt.subscribers)
               /\ atomSt'.calls[k][1] \notin atomSt.dropped
          /\ (\A c \in Callbacks : atomSt'.beh[c] = NoTarget) =>
               atomSt'.calls = [k \in 1..Len(atomSt.subscribers) |->
                                  <<atomSt.subscribers[k], atomSt'.value>>]]_vars

\* Two subscribers have been notified of a changed value, a third callback having
\* been unsubscribed before the set.
C21_Witness ==
  /\ atomSt.op = "set"
  /\ atomSt.value # atomSt.prev
  /\ \A c \in Callbacks : atomSt.beh[c] = NoTarget
  /\ atomSt.calls = <<<<"g", atomSt.value>>, <<"f", atomSt.value>>>>
  /\ atomSt.dropped = {"h"}

\* Whether the subscriber at position k of the subscribers present at the set is
\* to be invoked: no callback invoked before it has unsubscribed it.
RECURSIVE InvokedAt(_)
InvokedAt(k) ==
  \A j \in 1..(k - 1) :
    ~(InvokedAt(j) /\ atomSt.beh[atomSt.atSet[j]] = atomSt.atSet[k])

\* C22: a subscriber unsubscribed by another subscriber's callback before its
\* turn in the notification in progress is not invoked in it; every other
\* subscriber registered at the set is invoked once, in order.
C22_UnsubscribedNotInvoked ==
  atomSt.op = "set" =>
    /\ \A k \in 1..Len(atomSt.atSet) :
         Count(atomSt.calls, <<atomSt.atSet[k], atomSt.value>>)
           = IF InvokedAt(k) THEN 1 ELSE 0
    /\ Len(atomSt.calls)
         = Cardinality({k \in 1..Len(atomSt.atSet) : InvokedAt(k)})
    /\ \A i, j \in 1..Len(atomSt.calls) :
         i < j => IndexOf(atomSt.atSet, atomSt.calls[i][1])
                    < IndexOf(atomSt.atSet, atomSt.calls[j][1])

\* The first of three subscribers has unsubscribed the second; the third has
\* been notified after it.
C22_Witness ==
  /\ atomSt.op = "set"
  /\ Len(atomSt.atSet) = 3
  /\ atomSt.beh[atomSt.atSet[1]] = atomSt.atSet[2]
  /\ atomSt.calls = <<<<atomSt.atSet[1], atomSt.value>>,
                      <<atomSt.atSet[3], atomSt.value>>>>
  /\ atomSt.subscribers = <<atomSt.atSet[1], atomSt.atSet[3]>>

Unweighted(rec) == [rec EXCEPT !.weight = None]

C24_ChunkRewritesFromSnapshot ==
  [][/\ \A j \in (Len(tasks) + 1)..Len(tasks') :
          StoreGet(store', tasks'[j].id) = tasks'[j].msg
     /\ ev'.op = "chunk" =>
          LET t == tasks'[FindTask(tasks', ev'.id)]
          IN StoreGet(store', ev'.id)
               = [t.msg EXCEPT !.content = Some(ContentOrEmpty(t.msg)
                                                  \o t.result \o Blank)]
     /\ ev'.op \in {"done", "cancel"} =>
          StoreGet(store', ev'.id).content = StoreGet(store, ev'.id).content]_vars

\* The second chunk has replaced the content that editSelect had saved after the
\* first.
C24_Witness ==
  /\ ev.op = "chunk" /\ ev.k = 2
  /\ ev.text = <<"h">>
  /\ StoreGet(store, ev.id).content = Some(<<"a", "b", " ">>)

\* The ids below cur on the stored selected path down to p (p included), nearest
\* to the root first; "lost" marks a path on which select does not lead to p.
RECURSIVE SelectedPath(_, _, _, _)
SelectedPath(st, cur, p, fuel) ==
  IF cur = p THEN <<>>
  ELSE IF fuel = 0 \/ StoreGet(st, cur).select \notin NodeIds THEN <<"lost">>
  ELSE <<StoreGet(st, cur).select>>
         \o SelectedPath(st, StoreGet(st, cur).select, p, fuel - 1)

\* The (role, content) of the nodes of path that have content.
RECURSIVE PathMessages(_, _)
PathMessages(st, path) ==
  IF path = <<>> THEN <<>>
  ELSE (IF Truthy(StoreGet(st, Head(path)).content)
        THEN <<[role |-> StoreGet(st, Head(path)).role,
                content |-> Get(StoreGet(st, Head(path)).content)]>>
        ELSE <<>>) \o PathMessages(st, Tail(path))

MountedPath(p) ==
  LET i == CHOOSE k \in 1..Len(view) : view[k].id = p
  IN [k \in 1..(i - 1) |-> view[k + 1].id]

C26_TaskOnlyAtCreation ==
  [][\A id \in AllIds :
       (HasTask(tasks', id) /\ ~HasTask(tasks, id)) =>
          /\ ev'.op = "newBranch"
          /\ id \in {ev'.a, ev'.b}
          /\ id \in NodeIds /\ IdOrder(id) > nextId
          /\ ~Present(store, id)
          /\ Cardinality({j \in 1..Len(tasks') : tasks'[j].id = id}) = 1]_vars

\* The content of a node whose exchange has ended has been saved anew, and the
\* node has no task.
C26_Witness ==
  /\ ev.op = "editSelect" /\ ev.a \in NodeIds
  /\ IsSome(store[ev.a].meta.model)
  /\ store[ev.a].content = Some(<<"h">>)
  /\ ~HasTask(tasks, ev.a)

\* C27: a node that has a registered task has no children (nor a select or a
\* weight), and a streamed chunk, which rewrites the whole record of its node,
\* leaves the node's children, select and weight as they were.
C27_StreamingNodeIsLeaf ==
  /\ \A j \in 1..Len(tasks) :
       LET rec == StoreGet(store, tasks[j].id)
       IN  rec.messages = <<>> /\ rec.select = Undef /\ rec.weight = None
  /\ \A i \in 1..Len(view) : ~HasTask(tasks, view[i].id)
  /\ ev.op = "chunk" =>
       LET rec == StoreGet(store, ev.id)
       IN  rec.messages = <<>> /\ rec.select = Undef /\ rec.weight = None

\* A chunk has been written into the record of a node whose task is registered.
C27_Witness ==
  /\ ev.op = "chunk" /\ HasTask(tasks, ev.id)
  /\ IsSome(store[ev.id].content)
  /\ store[ev.id].messages = <<>>

\* C28: the children of a node all have the role opposite to the node's own
\* (user under the root and under an assistant node, assistant under a user
\* node), so roles alternate along every path from the root; and no step changes
\* the role of a node that exists before and after it.
C28_RolesAlternate ==
  /\ [](\A p \in DOMAIN store : \A k \in 1..Len(store[p].messages) :
          /\ p # Root => store[p].role \in {"user", "assistant"}
          /\ StoreGet(store, store[p].messages[k]).role =
               (IF store[p].role = "user" THEN "assistant" ELSE "user"))
  /\ [][\A id \in NodeIds :
          (Present(store, id) /\ Present(store', id)) =>
             StoreGet(store', id).role = StoreGet(store, id).role]_vars

\* A user node under the root has two assistant children, one of them with a
\* user child of its own, after an editSelect or a streamed chunk.
C28_Witness ==
  /\ ev.op \in {"editSelect", "chunk"}
  /\ \E u \in Range(StoreGet(store, Root).messages) :
       /\ store[u].role = "user"
       /\ Len(store[u].messages) = 2
       /\ \E a \in Range(store[u].messages) : store[a].messages # <<>>

====
